---- MODULE Spec2Model ----
(***************************************************************************)
(* Market agreement store of yagna: the agreement DAO                      *)
(* (core/market/src/db/dao/agreement.rs), the proposal flags it reads and  *)
(* writes, the agreement event log, and the legality oracle                *)
(* check_transition.  Every DAO call runs inside do_with_transaction, so   *)
(* every call is one step of the state machine: it either commits all of   *)
(* its writes or none of them.                                             *)
(***************************************************************************)
EXTENDS Integers, Sequences, FiniteSets, TLC

(***************************************************************************)
(* Bounds of the model.                                                    *)
(***************************************************************************)
MaxProposals == 2
MaxAgreements == 1
MaxNodes == 2
MaxEvents == 3
MaxHops == 3
MaxSubscriptions == 2
MaxEnqueued == 3
MaxTimestamp == 2
MaxTake == 2

(***************************************************************************)
(* Program constants: AGREEMENT_STORE_DAYS (agreement.rs:21-25).           *)
(***************************************************************************)
StoreDaysDefault == 90
StoreDaysMin == 30

(***************************************************************************)
(* Types.                                                                  *)
(***************************************************************************)
OwnerType == {"Provider", "Requestor"}

AgreementState ==
    {"Proposal", "Pending", "Cancelled", "Rejected", "Approved", "Expired", "Terminated"}

ProposalIds == 1..MaxProposals
NodeIds == 1..MaxNodes

\* An AgreementId carries its owner; swap_owner gives the mirror id.
AgreementIds == [n : 1..MaxAgreements, owner : OwnerType]

swap_owner(id) ==
    [id EXCEPT !.owner = IF id.owner = "Provider" THEN "Requestor" ELSE "Provider"]

\* Option<AppSessionId> and Option<String> (the reason): 0 is None.
NoSession == 0
NoReason == 0

\* Timestamps, in days.
ValidTos == {100}
ValidationTs == {100, 101}
CleanNows == {150, 191}

(***************************************************************************)
(* Results.                                                                *)
(***************************************************************************)
Ok == [tag |-> "Ok"]
InvalidTransition(from, to) == [tag |-> "InvalidTransition", from |-> from, to |-> to]
DbErrorRes == [tag |-> "DbError"]
ProposalCountered(p) == [tag |-> "ProposalCountered", proposal |-> p]
Exists(id, p) == [tag |-> "Exists", id |-> id, proposal |-> p]
Internal == [tag |-> "Internal"]
NotCalled == [tag |-> "NotCalled"]
AlreadyCountered(p) == [tag |-> "AlreadyCountered", proposal |-> p]
ParentNotFound(p) == [tag |-> "ParentNotFound", proposal |-> p]

(***************************************************************************)
(* check_transition (agreement.rs:297-324), arm by arm.                    *)
(***************************************************************************)
check_transition_selfloop(from, to) ==
    IF from = "Proposal" THEN
        IF to \in {"Pending", "Cancelled", "Expired"} THEN Ok
        ELSE InvalidTransition(from, to)
    ELSE IF from = "Pending" THEN
        IF to \in {"Pending", "Cancelled", "Rejected", "Approved", "Expired"} THEN Ok
        ELSE InvalidTransition(from, to)
    ELSE IF from = "Approved" THEN
        IF to = "Terminated" THEN Ok ELSE InvalidTransition(from, to)
    ELSE InvalidTransition(from, to)

check_transition_early(from, to) ==
    IF from = "Proposal" THEN
        IF to \in {"Pending", "Cancelled", "Expired"} THEN Ok
        ELSE InvalidTransition(from, to)
    ELSE IF from = "Pending" THEN
        IF to \in {"Cancelled", "Rejected", "Approved", "Expired", "Terminated"} THEN Ok
        ELSE InvalidTransition(from, to)
    ELSE IF from = "Approved" THEN
        IF to = "Terminated" THEN Ok ELSE InvalidTransition(from, to)
    ELSE InvalidTransition(from, to)

check_transition_reapprove(from, to) ==
    IF from = "Proposal" THEN
        IF to \in {"Pending", "Cancelled", "Expired"} THEN Ok
        ELSE InvalidTransition(from, to)
    ELSE IF from = "Pending" THEN
        IF to \in {"Cancelled", "Rejected", "Approved", "Expired"} THEN Ok
        ELSE InvalidTransition(from, to)
    ELSE IF from = "Approved" THEN
        IF to \in {"Approved", "Terminated"} THEN Ok ELSE InvalidTransition(from, to)
    ELSE InvalidTransition(from, to)

check_transition_revive(from, to) ==
    IF from = "Proposal" THEN
        IF to \in {"Pending", "Cancelled", "Expired"} THEN Ok
        ELSE InvalidTransition(from, to)
    ELSE IF from = "Pending" THEN
        IF to \in {"Cancelled", "Rejected", "Approved", "Expired"} THEN Ok
        ELSE InvalidTransition(from, to)
    ELSE IF from = "Approved" THEN
        IF to = "Terminated" THEN Ok ELSE InvalidTransition(from, to)
    ELSE IF from = "Expired" THEN
        IF to = "Pending" THEN Ok ELSE InvalidTransition(from, to)
    ELSE InvalidTransition(from, to)

check_transition(from, to) ==
    IF from = "Proposal" THEN
        IF to = "Pending" THEN Ok
        ELSE IF to = "Cancelled" THEN Ok
        ELSE IF to = "Expired" THEN Ok
        ELSE InvalidTransition(from, to)
    ELSE IF from = "Pending" THEN
        IF to = "Cancelled" THEN Ok
        ELSE IF to = "Rejected" THEN Ok
        ELSE IF to = "Approved" THEN Ok
        ELSE IF to = "Expired" THEN Ok
        ELSE InvalidTransition(from, to)
    ELSE IF from = "Cancelled" THEN InvalidTransition(from, to)
    ELSE IF from = "Rejected" THEN InvalidTransition(from, to)
    ELSE IF from = "Approved" THEN
        IF to = "Terminated" THEN Ok
        ELSE InvalidTransition(from, to)
    ELSE IF from = "Expired" THEN InvalidTransition(from, to)
    ELSE InvalidTransition(from, to)

(***************************************************************************)
(* State.                                                                  *)
(*   proposals   the proposal table: row i is proposal i                   *)
(*   agreements  the market_agreement table, a set of rows                 *)
(*   events      the market_agreement_event table, in insertion order      *)
(*   ret         what the last call was and what it returned               *)
(*   approvedBefore  ids of the stored rows that have been Approved        *)
(*   ctFrom, ctTo, ctRes, ctHops: a walk of one agreement state through    *)
(*               check_transition, for the oracle on its own               *)
(*   ctLeft      the states that walk has left                             *)
(***************************************************************************)
VARIABLES proposals, agreements, events, ret, approvedBefore,
          ctFrom, ctTo, ctRes, ctHops, ctLeft

(***************************************************************************)
(* State of the requestor's event queue (decentralized/src/db/dao/         *)
(* events.rs).                                                             *)
(*   market_event   the market_event table, a set of rows                  *)
(*   demands        the status of every subscription (demand_status)       *)
(*   next_event_id  the id the next inserted event gets                    *)
(*   delivered      how many times each event has been returned by a take  *)
(*   qret           what the last queue call was and what it returned      *)
(*   enqueued_ts    per subscription, the latest timestamp enqueued so far *)
(*   in_order       per subscription, whether no event was enqueued with a *)
(*                  timestamp earlier than one enqueued before it          *)
(*   taken_ts       per subscription, the latest timestamp returned so far *)
(***************************************************************************)
VARIABLES market_event, demands, next_event_id, delivered, qret,
          enqueued_ts, in_order, taken_ts

(***************************************************************************)
(* State of the provider's market engine (agent/provider/src/market/       *)
(* provider_market.rs).                                                    *)
(*   offers   ProviderMarket::offers: the subscription ids, in the order   *)
(*            create_offers pushed them                                    *)
(*   pc       "idle", or "run_step" while run_step is in its loop          *)
(*   at       the index in offers of the next subscription of run_step     *)
(*   calls    the calls the last engine operation has made so far to the   *)
(*            market api, to the negotiator and to error!, in order        *)
(*   mret     what the last engine operation was and what it returned      *)
(***************************************************************************)
VARIABLES offers, pc, at, calls, mret

storeVars == <<proposals, agreements, events, ret, approvedBefore>>
ctVars == <<ctFrom, ctTo, ctRes, ctHops, ctLeft>>
queueVars == <<market_event, demands, next_event_id, delivered, qret,
               enqueued_ts, in_order, taken_ts>>
marketVars == <<offers, pc, at, calls, mret>>
vars == <<proposals, agreements, events, ret, approvedBefore, ctFrom, ctTo, ctRes, ctHops, ctLeft,
          market_event, demands, next_event_id, delivered, qret,
          enqueued_ts, in_order, taken_ts, offers, pc, at, calls, mret>>


(***************************************************************************)
(* Inputs.  The Agreement handed to save is built by the model's           *)
(* constructor (db::model::Agreement): it is in state Proposal, has no     *)
(* session yet, and its two parties are different identities               *)
(* (agreement.rs:104-106).                                                 *)
(***************************************************************************)
NoNode == 0
NoId == [n |-> 0, owner |-> "None"]

NewAgreement_pending(id, proposal_id, provider, requestor, valid_to) ==
    [id |-> id, offer_proposal_id |-> proposal_id,
     provider_id |-> provider, requestor_id |-> requestor,
     valid_to |-> valid_to, state |-> "Pending", session_id |-> NoSession]

NewAgreement(id, proposal_id, provider, requestor, valid_to) ==
    [id |-> id, offer_proposal_id |-> proposal_id,
     provider_id |-> provider, requestor_id |-> requestor,
     valid_to |-> valid_to, state |-> "Proposal", session_id |-> NoSession]

AgreementInputs(parties) ==
    {NewAgreement(id, p, pr[1], pr[2], vt) :
        id \in AgreementIds, p \in ProposalIds, pr \in parties, vt \in ValidTos}

Parties_any == NodeIds \X NodeIds

Parties == {pr \in NodeIds \X NodeIds : pr[1] # pr[2]}

\* EnvConfig::get_value of YAGNA_MARKET_AGREEMENT_STORE_DAYS: 0 is "not set".
StoreDaysEnv == {0, 10}
get_value(env) ==
    IF env = 0 THEN StoreDaysDefault
    ELSE IF env < StoreDaysMin THEN StoreDaysMin ELSE env

(***************************************************************************)
(* The proposal table (db::dao::proposal).                                 *)
(***************************************************************************)
FreshProposal(prev) == [prev |-> prev, accepted |-> FALSE, countered |-> FALSE]

has_counter_proposal(props, p) ==
    /\ p \in DOMAIN props
    /\ \/ props[p].countered
       \/ \E q \in DOMAIN props : props[q].prev = p

\* mark_accepted: refused when the proposal has a child.
set_proposal_accepted(props, p) ==
    IF p \notin DOMAIN props \/ (\E q \in DOMAIN props : props[q].prev = p)
    THEN [ok |-> FALSE, proposals |-> props]
    ELSE [ok |-> TRUE, proposals |-> [props EXCEPT ![p].accepted = TRUE]]

(***************************************************************************)
(* The agreement event log (db::dao::agreement_events::create_event): one  *)
(* row for the state the agreement has just entered.                       *)
(***************************************************************************)
create_event(evts, agreement, reason, terminator) ==
    Append(evts, [agreement_id |-> agreement.id, kind |-> agreement.state,
                  reason |-> reason, terminator |-> terminator])

(***************************************************************************)
(* Helpers of the agreement DAO.                                           *)
(***************************************************************************)
find_agreement_for_proposal_none(agrs, proposal_id) == {}

find_agreement_for_proposal(agrs, proposal_id) ==
    {x \in agrs : x.offer_proposal_id = proposal_id}

update_state_unchecked(agrs, agreement, to_state) ==
    [res |-> Ok,
     agreements |-> {IF x.id = agreement.id THEN [x EXCEPT !.state = to_state] ELSE x
                       : x \in agrs},
     agreement |-> [agreement EXCEPT !.state = to_state]]

update_state(agrs, agreement, to_state) ==
    LET r == check_transition(agreement.state, to_state) IN
    IF r.tag = "Ok"
    THEN [res |-> Ok,
          agreements |-> {IF x.id = agreement.id THEN [x EXCEPT !.state = to_state] ELSE x
                            : x \in agrs},
          agreement |-> [agreement EXCEPT !.state = to_state]]
    ELSE [res |-> r, agreements |-> agrs, agreement |-> agreement]

update_session(agrs, agreement, session_id) ==
    [agreements |-> {IF x.id = agreement.id THEN [x EXCEPT !.session_id = session_id] ELSE x
                       : x \in agrs},
     agreement |-> [agreement EXCEPT !.session_id = session_id]]


(***************************************************************************)
(* The transactions of the agreement DAO.  Each gives the set of outcomes  *)
(* the call can have from the tables it is given: what it returns (res,    *)
(* val) and the tables it commits.  A call that returns an error commits   *)
(* nothing.  query.first() on several matching rows may give any of them.  *)
(***************************************************************************)

\* AgreementDao::save (agreement.rs:134-157).
save_tx_exists_first(agrs, props, a) ==
    LET proposal_id == a.offer_proposal_id
        found == find_agreement_for_proposal(agrs, proposal_id)
        unchanged(r) == [res |-> r, agreements |-> agrs, proposals |-> props]
    IN  IF found # {}
        THEN {unchanged(Exists(e.id, proposal_id)) : e \in found}
        ELSE IF has_counter_proposal(props, proposal_id)
        THEN {unchanged(ProposalCountered(proposal_id))}
        ELSE IF (\E x \in agrs : x.id = a.id)
        THEN {unchanged(Internal)}
        ELSE LET acc == set_proposal_accepted(props, proposal_id) IN
             IF ~acc.ok THEN {unchanged(Internal)}
             ELSE {[res |-> Ok, agreements |-> agrs \cup {a}, proposals |-> acc.proposals]}

save_tx_no_accept(agrs, props, a) ==
    LET proposal_id == a.offer_proposal_id
        found == find_agreement_for_proposal(agrs, proposal_id)
        unchanged(r) == [res |-> r, agreements |-> agrs, proposals |-> props]
    IN  IF has_counter_proposal(props, proposal_id)
        THEN {unchanged(ProposalCountered(proposal_id))}
        ELSE IF found # {}
        THEN {unchanged(Exists(e.id, proposal_id)) : e \in found}
        ELSE IF (\E x \in agrs : x.id = a.id)
        THEN {unchanged(Internal)}
        ELSE {[res |-> Ok, agreements |-> agrs \cup {a}, proposals |-> props]}

save_tx_exists_own_id(agrs, props, a) ==
    LET proposal_id == a.offer_proposal_id
        found == find_agreement_for_proposal(agrs, proposal_id)
        unchanged(r) == [res |-> r, agreements |-> agrs, proposals |-> props]
    IN  IF has_counter_proposal(props, proposal_id)
        THEN {unchanged(ProposalCountered(proposal_id))}
        ELSE IF found # {}
        THEN {unchanged(Exists(a.id, proposal_id))}
        ELSE IF (\E x \in agrs : x.id = a.id)
        THEN {unchanged(Internal)}
        ELSE LET acc == set_proposal_accepted(props, proposal_id) IN
             IF ~acc.ok THEN {unchanged(Internal)}
             ELSE {[res |-> Ok, agreements |-> agrs \cup {a}, proposals |-> acc.proposals]}

save_tx(agrs, props, a) ==
    LET proposal_id == a.offer_proposal_id
        found == find_agreement_for_proposal(agrs, proposal_id)
        unchanged(r) == [res |-> r, agreements |-> agrs, proposals |-> props]
    IN  IF has_counter_proposal(props, proposal_id)
        THEN {unchanged(ProposalCountered(proposal_id))}
        ELSE IF found # {}
        THEN {unchanged(Exists(e.id, proposal_id)) : e \in found}
        \* the insert: id is the primary key of market_agreement
        ELSE IF (\E x \in agrs : x.id = a.id)
        THEN {unchanged(Internal)}
        ELSE LET acc == set_proposal_accepted(props, proposal_id) IN
             IF ~acc.ok THEN {unchanged(Internal)}
             ELSE {[res |-> Ok, agreements |-> agrs \cup {a}, proposals |-> acc.proposals]}

\* The expiration that select and select_by_node apply to the row they found
\* (agreement.rs:85-91 and 119-125): a refused transition is ignored.
expire_on_read_strict(agrs, agreement, validation_ts) ==
    IF agreement.valid_to < validation_ts
    THEN LET u == update_state(agrs, agreement, "Expired") IN
         IF u.res.tag = "Ok"
         THEN [res |-> Ok, agreements |-> u.agreements, val |-> {u.agreement}]
         ELSE [res |-> u.res, agreements |-> agrs, val |-> {}]
    ELSE [res |-> Ok, agreements |-> agrs, val |-> {agreement}]

expire_on_read_le(agrs, agreement, validation_ts) ==
    IF agreement.valid_to <= validation_ts
    THEN LET u == update_state(agrs, agreement, "Expired") IN
         [res |-> Ok, agreements |-> u.agreements, val |-> {u.agreement}]
    ELSE [res |-> Ok, agreements |-> agrs, val |-> {agreement}]

expire_on_read(agrs, agreement, validation_ts) ==
    IF agreement.valid_to < validation_ts
    THEN LET u == update_state(agrs, agreement, "Expired") IN
         [res |-> Ok, agreements |-> u.agreements, val |-> {u.agreement}]
    ELSE [res |-> Ok, agreements |-> agrs, val |-> {agreement}]

\* AgreementDao::select (agreement.rs:63-96).
select_tx(agrs, id, node_id, validation_ts) ==
    LET query == {x \in agrs :
                    /\ x.id = id
                    /\ \/ node_id = NoNode
                       \/ IF id.owner = "Provider"
                          THEN x.provider_id = node_id
                          ELSE x.requestor_id = node_id}
    IN  IF query = {}
        THEN {[res |-> Ok, agreements |-> agrs, val |-> {}]}
        ELSE {expire_on_read(agrs, x, validation_ts) : x \in query}

\* AgreementDao::select_by_node (agreement.rs:98-132).
select_by_node_tx(agrs, id, node_id, validation_ts) ==
    LET query == {x \in agrs :
                    /\ x.id \in {id, swap_owner(id)}
                    /\ (x.provider_id = node_id \/ x.requestor_id = node_id)}
    IN  IF query = {}
        THEN {[res |-> Ok, agreements |-> agrs, val |-> {}]}
        ELSE {expire_on_read(agrs, x, validation_ts) : x \in query}

\* AgreementDao::confirm (agreement.rs:159-179).
confirm_tx(agrs, id, session) ==
    LET rows == {x \in agrs : x.id = id} IN
    IF rows = {} THEN {[res |-> DbErrorRes, agreements |-> agrs]}
    ELSE {LET u == update_state(agrs, x, "Pending") IN
          IF u.res.tag # "Ok" THEN [res |-> u.res, agreements |-> agrs]
          ELSE IF session # NoSession
               THEN [res |-> Ok,
                     agreements |-> update_session(u.agreements, u.agreement, session).agreements]
               ELSE [res |-> Ok, agreements |-> u.agreements]
          : x \in rows}

\* AgreementDao::approve (agreement.rs:182-208).
approve_tx_writes_absent(agrs, evts, id, session) ==
    LET rows == {x \in agrs : x.id = id} IN
    IF rows = {} THEN {[res |-> DbErrorRes, agreements |-> agrs, events |-> evts]}
    ELSE {LET u == update_state(agrs, x, "Approved") IN
          IF u.res.tag # "Ok" THEN [res |-> u.res, agreements |-> agrs, events |-> evts]
          ELSE LET s == update_session(u.agreements, u.agreement, session)
               IN [res |-> Ok, agreements |-> s.agreements,
                   events |-> create_event(evts, s.agreement, NoReason, "Provider")]
          : x \in rows}

approve_tx(agrs, evts, id, session) ==
    LET rows == {x \in agrs : x.id = id} IN
    IF rows = {} THEN {[res |-> DbErrorRes, agreements |-> agrs, events |-> evts]}
    ELSE {LET u == update_state(agrs, x, "Approved") IN
          IF u.res.tag # "Ok" THEN [res |-> u.res, agreements |-> agrs, events |-> evts]
          ELSE LET s == IF session # NoSession
                        THEN update_session(u.agreements, u.agreement, session)
                        ELSE [agreements |-> u.agreements, agreement |-> u.agreement]
               IN [res |-> Ok, agreements |-> s.agreements,
                   events |-> create_event(evts, s.agreement, NoReason, "Provider")]
          : x \in rows}

\* AgreementDao::terminate (agreement.rs:210-228).
terminate_tx_drops_reason(agrs, evts, id, reason, terminator) ==
    LET rows == {x \in agrs : x.id = id} IN
    IF rows = {} THEN {[res |-> DbErrorRes, agreements |-> agrs, events |-> evts]}
    ELSE {LET u == update_state(agrs, x, "Terminated") IN
          IF u.res.tag # "Ok" THEN [res |-> u.res, agreements |-> agrs, events |-> evts]
          ELSE [res |-> Ok, agreements |-> u.agreements,
                events |-> create_event(evts, u.agreement, NoReason, terminator)]
          : x \in rows}

terminate_tx(agrs, evts, id, reason, terminator) ==
    LET rows == {x \in agrs : x.id = id} IN
    IF rows = {} THEN {[res |-> DbErrorRes, agreements |-> agrs, events |-> evts]}
    ELSE {LET u == update_state(agrs, x, "Terminated") IN
          IF u.res.tag # "Ok" THEN [res |-> u.res, agreements |-> agrs, events |-> evts]
          ELSE [res |-> Ok, agreements |-> u.agreements,
                events |-> create_event(evts, u.agreement, reason, terminator)]
          : x \in rows}

\* AgreementDao::clean (agreement.rs:230-255).  Both deletes are built from
\* the same filter on market_agreement and run one after the other: the
\* second one's sub-select reads the table the first one has already emptied.
agreements_to_clean_no_grace(agrs, now, interval_days) ==
    {x \in agrs : x.valid_to < now}

agreements_to_clean(agrs, now, interval_days) ==
    {x \in agrs : x.valid_to < now - interval_days}

clean_tx(agrs, evts, now, interval_days) ==
    LET agrs1 == agrs \ agreements_to_clean(agrs, now, interval_days)
        ids == {x.id : x \in agreements_to_clean(agrs1, now, interval_days)}
        related(e) == e.agreement_id \in ids
        keep(e) == ~related(e)
    IN  [res |-> Ok, agreements |-> agrs1, events |-> SelectSeq(evts, keep)]


(***************************************************************************)
(* Initial state: empty tables, nothing called yet.                        *)
(***************************************************************************)
\* The record of a call: its name, the agreement id and the proposal id it
\* was given (NoId, 0: none), the result and, for a select, the row returned.
Returned(op, id, proposal, res, val) ==
    [op |-> op, id |-> id, proposal |-> proposal, res |-> res, val |-> val]

InitStore ==
    /\ proposals = <<>>
    /\ agreements = {}
    /\ events = <<>>
    /\ ret = Returned("none", NoId, 0, NotCalled, {})
    /\ approvedBefore = {}

InitWalk ==
    /\ ctFrom = "Proposal"
    /\ ctTo = "Proposal"
    /\ ctRes = NotCalled
    /\ ctHops = 0
    /\ ctLeft = {}

(***************************************************************************)
(* The event queue of the requestor (events.rs).                           *)
(***************************************************************************)
SubscriptionIds == 1..MaxSubscriptions
EventIds == 1..MaxEnqueued
EventTimestamps == 1..MaxTimestamp

\* max_events is a count of events: the callers pass 0 or more.
TakeMax == 0..MaxTake

\* DemandState, as demand_status gives it.
DemandState == {"NotFound", "Active", "Expired"}
demand_status(dem, subscription_id) == dem[subscription_id]

\* TakeEventsError (events.rs:13-21).
SubscriptionNotFound(s) == [tag |-> "SubscriptionNotFound", subscription |-> s]
SubscriptionExpired(s) == [tag |-> "SubscriptionExpired", subscription |-> s]

\* MarketEvent::from_proposal: a row for the proposal's subscription.
MarketEvent(id, subscription_id, timestamp) ==
    [id |-> id, subscription_id |-> subscription_id, timestamp |-> timestamp]

QueueReturned(op, subscription_id, res, val) ==
    [op |-> op, subscription |-> subscription_id, res |-> res, val |-> val]

InitQueue ==
    /\ market_event = {}
    /\ demands = [s \in SubscriptionIds |-> "NotFound"]
    /\ next_event_id = 1
    /\ delivered = [e \in EventIds |-> 0]
    /\ qret = QueueReturned("none", 0, NotCalled, <<>>)
    /\ enqueued_ts = [s \in SubscriptionIds |-> 0]
    /\ in_order = [s \in SubscriptionIds |-> TRUE]
    /\ taken_ts = [s \in SubscriptionIds |-> 0]

\* ProviderMarket::new (provider_market.rs:32-35): no offers yet.
InitMarket ==
    /\ offers = <<>>
    /\ pc = "idle"
    /\ at = 0
    /\ calls = <<>>
    /\ mret = [op |-> "none", res |-> NotCalled]

Init == InitStore /\ InitWalk /\ InitQueue /\ InitMarket

\* The stored rows that are, or have been, Approved.
Track(agrs) == {x.id : x \in {y \in agrs : y.state = "Approved" \/ y.id \in approvedBefore}}

(***************************************************************************)
(* The proposal store's operations (spec 4.1).                             *)
(***************************************************************************)
save_initial ==
    /\ Len(proposals) < MaxProposals
    /\ proposals' = Append(proposals, FreshProposal(0))
    /\ ret' = Returned("save_initial", NoId, 0, Ok, {})
    /\ UNCHANGED <<agreements, events, approvedBefore, ctVars, queueVars, marketVars>>

save_counter(parent) ==
    /\ IF parent \notin DOMAIN proposals
       THEN /\ ret' = Returned("save_counter", NoId, parent, ParentNotFound(parent), {})
            /\ UNCHANGED proposals
       ELSE IF has_counter_proposal(proposals, parent)
       THEN /\ ret' = Returned("save_counter", NoId, parent, AlreadyCountered(parent), {})
            /\ UNCHANGED proposals
       ELSE /\ Len(proposals) < MaxProposals
            /\ proposals' = Append(proposals, FreshProposal(parent))
            /\ ret' = Returned("save_counter", NoId, parent, Ok, {})
    /\ UNCHANGED <<agreements, events, approvedBefore, ctVars, queueVars, marketVars>>

mark_countered(p) ==
    /\ p \in DOMAIN proposals
    /\ proposals' = [proposals EXCEPT ![p].countered = TRUE]
    /\ ret' = Returned("mark_countered", NoId, p, Ok, {})
    /\ UNCHANGED <<agreements, events, approvedBefore, ctVars, queueVars, marketVars>>

(***************************************************************************)
(* The agreement DAO's operations: one step per call.                      *)
(***************************************************************************)
\* "Agreement is always created for last Provider Proposal" (agreement.rs:135):
\* the proposal an agreement names is in the proposal table.
save(a) ==
    /\ a.offer_proposal_id \in DOMAIN proposals
    /\ \E o \in save_tx(agreements, proposals, a) :
        /\ agreements' = o.agreements
        /\ proposals' = o.proposals
        /\ ret' = Returned("save", a.id, a.offer_proposal_id, o.res, {})
        /\ approvedBefore' = Track(o.agreements)
        /\ UNCHANGED <<events, ctVars, queueVars, marketVars>>

select(id, node_id, validation_ts) ==
    \E o \in select_tx(agreements, id, node_id, validation_ts) :
        /\ agreements' = o.agreements
        /\ ret' = Returned("select", id, 0, o.res, o.val)
        /\ approvedBefore' = Track(o.agreements)
        /\ UNCHANGED <<proposals, events, ctVars, queueVars, marketVars>>

select_by_node(id, node_id, validation_ts) ==
    \E o \in select_by_node_tx(agreements, id, node_id, validation_ts) :
        /\ agreements' = o.agreements
        /\ ret' = Returned("select_by_node", id, 0, o.res, o.val)
        /\ approvedBefore' = Track(o.agreements)
        /\ UNCHANGED <<proposals, events, ctVars, queueVars, marketVars>>

confirm(id, session) ==
    \E o \in confirm_tx(agreements, id, session) :
        /\ agreements' = o.agreements
        /\ ret' = Returned("confirm", id, 0, o.res, {})
        /\ approvedBefore' = Track(o.agreements)
        /\ UNCHANGED <<proposals, events, ctVars, queueVars, marketVars>>

approve(id, session) ==
    \E o \in approve_tx(agreements, events, id, session) :
        /\ Len(o.events) <= MaxEvents
        /\ agreements' = o.agreements
        /\ events' = o.events
        /\ ret' = Returned("approve", id, 0, o.res, {})
        /\ approvedBefore' = Track(o.agreements)
        /\ UNCHANGED <<proposals, ctVars, queueVars, marketVars>>

terminate(id, reason, terminator) ==
    \E o \in terminate_tx(agreements, events, id, reason, terminator) :
        /\ Len(o.events) <= MaxEvents
        /\ agreements' = o.agreements
        /\ events' = o.events
        /\ ret' = Returned("terminate", id, 0, o.res, {})
        /\ approvedBefore' = Track(o.agreements)
        /\ UNCHANGED <<proposals, ctVars, queueVars, marketVars>>

clean(now, env) ==
    LET o == clean_tx(agreements, events, now, get_value(env)) IN
        /\ agreements' = o.agreements
        /\ events' = o.events
        /\ ret' = Returned("clean", NoId, 0, o.res, {})
        /\ approvedBefore' = Track(o.agreements)
        /\ UNCHANGED <<proposals, ctVars, queueVars, marketVars>>

(***************************************************************************)
(* The calls a run may make, with their arguments drawn from the sets of   *)
(* the record in: in.agreement (what save is given), in.node, in.ts,       *)
(* in.session, in.reason, in.terminator, in.now, in.env.                   *)
(***************************************************************************)
StoreNext(in) ==
    \/ save_initial
    \/ \E parent \in ProposalIds : save_counter(parent)
    \/ \E p \in ProposalIds : mark_countered(p)
    \/ \E a \in in.agreement : save(a)
    \/ \E id \in AgreementIds, node \in in.node \cup {NoNode}, ts \in in.ts :
           select(id, node, ts)
    \/ \E id \in AgreementIds, node \in in.node, ts \in in.ts :
           select_by_node(id, node, ts)
    \/ \E id \in AgreementIds, session \in in.session : confirm(id, session)
    \/ \E id \in AgreementIds, session \in in.session : approve(id, session)
    \/ \E id \in AgreementIds, reason \in in.reason, terminator \in in.terminator :
           terminate(id, reason, terminator)
    \/ \E now \in in.now, env \in in.env : clean(now, env)

\* In Spec node 1 is the provider of every agreement (the other assignment is
\* symmetric), and no session or reason is passed.
SpecInputs ==
    [agreement |-> {a \in AgreementInputs(Parties) : a.provider_id = 1},
     node |-> NodeIds,
     ts |-> ValidationTs,
     session |-> {NoSession},
     reason |-> {NoReason},
     terminator |-> {"Provider"},
     now |-> CleanNows,
     env |-> StoreDaysEnv]

Next == StoreNext(SpecInputs)

Spec == Init /\ [][Next]_vars

(***************************************************************************)
(* The life of two agreements with every argument varied: an old one       *)
(* (valid_to 100) and a recent one (valid_to 140), read at 100 and at 141, *)
(* confirmed and approved with or without a session, terminated by the     *)
(* requestor with or without a reason, swept at day 150 with the default   *)
(* retention (90 days) or the floor (30 days).                             *)
(***************************************************************************)
OldValidTo == 100
RecentValidTo == 140
LifeTs == {100, 141}
LifeNows == {150}
Sessions == {1, 2}
Reasons == {1}

LifeInputs ==
    [agreement |-> {NewAgreement([n |-> 1, owner |-> "Provider"], 1, 1, 2, OldValidTo),
                    NewAgreement([n |-> 1, owner |-> "Requestor"], 2, 1, 2, RecentValidTo)},
     node |-> {1},
     ts |-> LifeTs,
     session |-> {NoSession} \cup Sessions,
     reason |-> {NoReason} \cup Reasons,
     terminator |-> {"Requestor"},
     now |-> LifeNows,
     env |-> StoreDaysEnv]

NextLife == StoreNext(LifeInputs)

SpecLife == Init /\ [][NextLife]_vars


(***************************************************************************)
(* Reads by node: the two mirror ids of one agreement number, saved for    *)
(* provider 1 and requestor 2, are read by either party and by a node that *)
(* is party to nothing.                                                    *)
(***************************************************************************)
Stranger == MaxNodes + 1
ReadingNodes == NodeIds \cup {Stranger}

NodeInputs ==
    [agreement |-> {NewAgreement([n |-> 1, owner |-> "Provider"], 1, 1, 2, OldValidTo),
                    NewAgreement([n |-> 1, owner |-> "Requestor"], 2, 1, 2, OldValidTo)},
     node |-> ReadingNodes,
     ts |-> {OldValidTo},
     session |-> {NoSession},
     reason |-> {NoReason},
     terminator |-> {"Provider"},
     now |-> LifeNows,
     env |-> {0}]

NextNode == StoreNext(NodeInputs)

SpecNode == Init /\ [][NextNode]_vars

(***************************************************************************)
(* Calls cut short by the database.  The closure a DAO call hands to       *)
(* do_with_transaction writes row by row; a write the database refuses     *)
(* ends the closure with an error after the earlier writes were made.      *)
(* do_with_transaction (ya_persistence::executor) commits what the closure *)
(* wrote when it returns Ok and rolls it back when it returns Err.         *)
(***************************************************************************)
SessionIdError == [tag |-> "SessionId"]
EventError == [tag |-> "EventError"]

\* The write that the database refuses in one call.
RefusedWrites == {"session", "event"}

do_with_transaction_keeps(agrs, evts, o) == o

do_with_transaction(agrs, evts, o) ==
    IF o.res.tag = "Ok" THEN o
    ELSE [res |-> o.res, agreements |-> agrs, events |-> evts]

\* The closure of AgreementDao::confirm (agreement.rs:167-177).
confirm_closure(agrs, evts, id, session, refused) ==
    LET rows == {x \in agrs : x.id = id} IN
    IF rows = {} THEN {[res |-> DbErrorRes, agreements |-> agrs, events |-> evts]}
    ELSE {LET u == update_state(agrs, x, "Pending") IN
          IF u.res.tag # "Ok" THEN [res |-> u.res, agreements |-> u.agreements, events |-> evts]
          ELSE IF session # NoSession
               THEN IF refused = "session"
                    THEN [res |-> SessionIdError, agreements |-> u.agreements, events |-> evts]
                    ELSE [res |-> Ok,
                          agreements |-> update_session(u.agreements, u.agreement, session).agreements,
                          events |-> evts]
               ELSE [res |-> Ok, agreements |-> u.agreements, events |-> evts]
          : x \in rows}

\* The closure of AgreementDao::approve (agreement.rs:190-206).
approve_closure(agrs, evts, id, session, refused) ==
    LET rows == {x \in agrs : x.id = id} IN
    IF rows = {} THEN {[res |-> DbErrorRes, agreements |-> agrs, events |-> evts]}
    ELSE {LET u == update_state(agrs, x, "Approved") IN
          IF u.res.tag # "Ok" THEN [res |-> u.res, agreements |-> u.agreements, events |-> evts]
          ELSE IF session # NoSession /\ refused = "session"
               THEN [res |-> SessionIdError, agreements |-> u.agreements, events |-> evts]
               ELSE LET s == IF session # NoSession
                             THEN update_session(u.agreements, u.agreement, session)
                             ELSE [agreements |-> u.agreements, agreement |-> u.agreement]
                    IN  IF refused = "event"
                        THEN [res |-> EventError, agreements |-> s.agreements, events |-> evts]
                        ELSE [res |-> Ok, agreements |-> s.agreements,
                              events |-> create_event(evts, s.agreement, NoReason, "Provider")]
          : x \in rows}

\* The closure of AgreementDao::terminate (agreement.rs:217-226).
terminate_closure(agrs, evts, id, reason, terminator, refused) ==
    LET rows == {x \in agrs : x.id = id} IN
    IF rows = {} THEN {[res |-> DbErrorRes, agreements |-> agrs, events |-> evts]}
    ELSE {LET u == update_state(agrs, x, "Terminated") IN
          IF u.res.tag # "Ok" THEN [res |-> u.res, agreements |-> u.agreements, events |-> evts]
          ELSE IF refused = "event"
               THEN [res |-> EventError, agreements |-> u.agreements, events |-> evts]
               ELSE [res |-> Ok, agreements |-> u.agreements,
                     events |-> create_event(evts, u.agreement, reason, terminator)]
          : x \in rows}

confirm_refused(id, session, refused) ==
    \E c \in confirm_closure(agreements, events, id, session, refused) :
        LET o == do_with_transaction(agreements, events, c) IN
        /\ agreements' = o.agreements
        /\ events' = o.events
        /\ ret' = Returned("confirm", id, 0, o.res, {})
        /\ approvedBefore' = Track(o.agreements)
        /\ UNCHANGED <<proposals, ctVars, queueVars, marketVars>>

approve_refused(id, session, refused) ==
    \E c \in approve_closure(agreements, events, id, session, refused) :
        LET o == do_with_transaction(agreements, events, c) IN
        /\ Len(o.events) <= MaxEvents
        /\ agreements' = o.agreements
        /\ events' = o.events
        /\ ret' = Returned("approve", id, 0, o.res, {})
        /\ approvedBefore' = Track(o.agreements)
        /\ UNCHANGED <<proposals, ctVars, queueVars, marketVars>>

terminate_refused(id, reason, terminator, refused) ==
    \E c \in terminate_closure(agreements, events, id, reason, terminator, refused) :
        LET o == do_with_transaction(agreements, events, c) IN
        /\ Len(o.events) <= MaxEvents
        /\ agreements' = o.agreements
        /\ events' = o.events
        /\ ret' = Returned("terminate", id, 0, o.res, {})
        /\ approvedBefore' = Track(o.agreements)
        /\ UNCHANGED <<proposals, ctVars, queueVars, marketVars>>

\* One agreement, confirmed and approved with or without a session.
RefusedInputs ==
    [agreement |-> {NewAgreement([n |-> 1, owner |-> "Provider"], 1, 1, 2, RecentValidTo)},
     node |-> {1},
     ts |-> {OldValidTo},
     session |-> {NoSession} \cup Sessions,
     reason |-> Reasons,
     terminator |-> {"Requestor"},
     now |-> LifeNows,
     env |-> {0}]

NextRefused ==
    \/ StoreNext(RefusedInputs)
    \/ \E id \in AgreementIds, session \in RefusedInputs.session, refused \in RefusedWrites :
           confirm_refused(id, session, refused)
    \/ \E id \in AgreementIds, session \in RefusedInputs.session, refused \in RefusedWrites :
           approve_refused(id, session, refused)
    \/ \E id \in AgreementIds, reason \in RefusedInputs.reason,
          terminator \in RefusedInputs.terminator, refused \in RefusedWrites :
           terminate_refused(id, reason, terminator, refused)

SpecRefused == Init /\ [][NextRefused]_vars

(***************************************************************************)
(* Reads of an outdated agreement in any state.  The states Cancelled and  *)
(* Rejected are written by calls that are not part of this DAO, so the     *)
(* table starts with one agreement in any of the seven states, with the    *)
(* events that state comes with, and is read after its valid_to.           *)
(***************************************************************************)
ReadTs == {141}

ReadRows ==
    {[NewAgreement(id, 1, 1, 2, vt) EXCEPT !.state = st] :
        id \in AgreementIds, vt \in {OldValidTo, RecentValidTo}, st \in AgreementState}

ReadLog(x) ==
    IF x.state = "Approved" THEN create_event(<<>>, x, NoReason, "Provider")
    ELSE IF x.state = "Terminated"
    THEN create_event(create_event(<<>>, [x EXCEPT !.state = "Approved"], NoReason, "Provider"),
                      x, NoReason, "Provider")
    ELSE <<>>

InitRead ==
    /\ proposals = <<[FreshProposal(0) EXCEPT !.accepted = TRUE]>>
    /\ \E x \in ReadRows :
           /\ agreements = {x}
           /\ events = ReadLog(x)
           /\ approvedBefore = IF x.state \in {"Approved", "Terminated"} THEN {x.id} ELSE {}
    /\ ret = Returned("none", NoId, 0, NotCalled, {})
    /\ InitWalk
    /\ InitQueue
    /\ InitMarket

NextRead ==
    \/ \E id \in AgreementIds, node \in NodeIds \cup {NoNode}, ts \in ReadTs :
           select(id, node, ts)
    \/ \E id \in AgreementIds, node \in NodeIds, ts \in ReadTs :
           select_by_node(id, node, ts)

SpecRead == InitRead /\ [][NextRead]_vars

(***************************************************************************)
(* The calls of the event queue: one step per call (each is one            *)
(* do_with_transaction).                                                   *)
(***************************************************************************)
RangeOf(sq) == {sq[i] : i \in DOMAIN sq}
MinOf(a, b) == IF a < b THEN a ELSE b
MaxOf(a, b) == IF a > b THEN a ELSE b

\* The history of the queue, kept beside it.
historyVars == <<enqueued_ts, in_order, taken_ts>>

\* The latest timestamp among t and those of the events of sq.
LatestOf(t, sq) ==
    IF sq = <<>> THEN t
    ELSE MaxOf(t, CHOOSE m \in {sq[i].timestamp : i \in DOMAIN sq} :
                      \A i \in DOMAIN sq : sq[i].timestamp <= m)

\* The rows a take loads (events.rs:62-66): the first max_events rows of the
\* subscription in ascending timestamp order.  Rows with the same timestamp
\* come in an order the database chooses.
load_events_any_order(tbl, subscription_id, max_events) ==
    LET queue == {e \in tbl : e.subscription_id = subscription_id}
        k == MinOf(Cardinality(queue), max_events)
    IN  {sq \in [1..k -> queue] : \A i, j \in 1..k : i # j => sq[i] # sq[j]}

load_events_any_subscription(tbl, subscription_id, max_events) ==
    LET queue == tbl
        k == MinOf(Cardinality(queue), max_events)
    IN  {sq \in [1..k -> queue] :
            /\ \A i, j \in 1..k : i # j => sq[i] # sq[j]
            /\ \A i, j \in 1..k : i < j => sq[i].timestamp <= sq[j].timestamp
            /\ \A e \in queue \ RangeOf(sq) : \A i \in 1..k : sq[i].timestamp <= e.timestamp}

load_events_newest_first(tbl, subscription_id, max_events) ==
    LET queue == {e \in tbl : e.subscription_id = subscription_id}
        k == MinOf(Cardinality(queue), max_events)
    IN  {sq \in [1..k -> queue] :
            /\ \A i, j \in 1..k : i # j => sq[i] # sq[j]
            /\ \A i, j \in 1..k : i < j => sq[i].timestamp >= sq[j].timestamp
            /\ \A e \in queue \ RangeOf(sq) : \A i \in 1..k : sq[i].timestamp >= e.timestamp}

load_events(tbl, subscription_id, max_events) ==
    LET queue == {e \in tbl : e.subscription_id = subscription_id}
        k == MinOf(Cardinality(queue), max_events)
    IN  {sq \in [1..k -> queue] :
            /\ \A i, j \in 1..k : i # j => sq[i] # sq[j]
            /\ \A i, j \in 1..k : i < j => sq[i].timestamp <= sq[j].timestamp
            /\ \A e \in queue \ RangeOf(sq) : \A i \in 1..k : sq[i].timestamp <= e.timestamp}

\* EventsDao::take_requestor_events (events.rs:45-77).
take_requestor_events_tx_unchecked(tbl, dem, subscription_id, max_events) ==
    {[res |-> Ok, val |-> sq, market_event |-> tbl \ RangeOf(sq)]
        : sq \in load_events(tbl, subscription_id, max_events)}

take_requestor_events_tx_no_delete(tbl, dem, subscription_id, max_events) ==
    IF demand_status(dem, subscription_id) = "NotFound"
    THEN {[res |-> SubscriptionNotFound(subscription_id), val |-> <<>>, market_event |-> tbl]}
    ELSE IF demand_status(dem, subscription_id) = "Expired"
    THEN {[res |-> SubscriptionExpired(subscription_id), val |-> <<>>, market_event |-> tbl]}
    ELSE {[res |-> Ok, val |-> sq, market_event |-> tbl]
            : sq \in load_events(tbl, subscription_id, max_events)}

take_requestor_events_tx(tbl, dem, subscription_id, max_events) ==
    IF demand_status(dem, subscription_id) = "NotFound"
    THEN {[res |-> SubscriptionNotFound(subscription_id), val |-> <<>>, market_event |-> tbl]}
    ELSE IF demand_status(dem, subscription_id) = "Expired"
    THEN {[res |-> SubscriptionExpired(subscription_id), val |-> <<>>, market_event |-> tbl]}
    ELSE {[res |-> Ok, val |-> sq,
           market_event |-> IF sq # <<>> THEN {e \in tbl : e.id \notin {x.id : x \in RangeOf(sq)}}
                            ELSE tbl]
            : sq \in load_events(tbl, subscription_id, max_events)}

\* The life of a subscription (spec 3): created by subscribe, expired by the
\* clock, removed by unsubscribe.
subscribe(s) ==
    /\ demands[s] = "NotFound"
    /\ demands' = [demands EXCEPT ![s] = "Active"]
    /\ qret' = QueueReturned("subscribe", s, Ok, <<>>)
    /\ UNCHANGED <<market_event, next_event_id, delivered, historyVars, storeVars, ctVars, marketVars>>

expire(s) ==
    /\ demands[s] = "Active"
    /\ demands' = [demands EXCEPT ![s] = "Expired"]
    /\ qret' = QueueReturned("expire", s, Ok, <<>>)
    /\ UNCHANGED <<market_event, next_event_id, delivered, historyVars, storeVars, ctVars, marketVars>>

unsubscribe(s) ==
    /\ demands[s] # "NotFound"
    /\ demands' = [demands EXCEPT ![s] = "NotFound"]
    /\ qret' = QueueReturned("unsubscribe", s, Ok, <<>>)
    /\ UNCHANGED <<market_event, next_event_id, delivered, historyVars, storeVars, ctVars, marketVars>>

\* EventsDao::add_proposal_event (events.rs:34-43).
add_proposal_event(s, timestamp) ==
    /\ next_event_id <= MaxEnqueued
    /\ market_event' = market_event \cup {MarketEvent(next_event_id, s, timestamp)}
    /\ next_event_id' = next_event_id + 1
    /\ qret' = QueueReturned("add_proposal_event", s, Ok, <<>>)
    /\ enqueued_ts' = [enqueued_ts EXCEPT ![s] = MaxOf(@, timestamp)]
    /\ in_order' = [in_order EXCEPT ![s] = @ /\ timestamp >= enqueued_ts[s]]
    /\ UNCHANGED <<demands, delivered, taken_ts, storeVars, ctVars, marketVars>>

take_requestor_events(s, max_events) ==
    \E o \in take_requestor_events_tx(market_event, demands, s, max_events) :
        /\ market_event' = o.market_event
        /\ delivered' = [e \in EventIds |->
                            delivered[e] + Cardinality({i \in DOMAIN o.val : o.val[i].id = e})]
        /\ qret' = QueueReturned("take_requestor_events", s, o.res, o.val)
        /\ taken_ts' = [taken_ts EXCEPT ![s] = LatestOf(@, o.val)]
        /\ UNCHANGED <<demands, next_event_id, enqueued_ts, in_order, storeVars, ctVars, marketVars>>

\* EventsDao::remove_requestor_events (events.rs:79-87).
remove_requestor_events(s) ==
    /\ market_event' = {e \in market_event : e.subscription_id # s}
    /\ qret' = QueueReturned("remove_requestor_events", s, Ok, <<>>)
    /\ UNCHANGED <<demands, next_event_id, delivered, historyVars, storeVars, ctVars, marketVars>>

NextQueue ==
    \/ \E s \in SubscriptionIds : subscribe(s)
    \/ \E s \in SubscriptionIds : expire(s)
    \/ \E s \in SubscriptionIds : unsubscribe(s)
    \/ \E s \in SubscriptionIds, timestamp \in EventTimestamps : add_proposal_event(s, timestamp)
    \/ \E s \in SubscriptionIds, max_events \in TakeMax : take_requestor_events(s, max_events)
    \/ \E s \in SubscriptionIds : remove_requestor_events(s)

SpecQueue == Init /\ [][NextQueue]_vars

(***************************************************************************)
(* The provider's market engine (agent/provider/src/market/                *)
(* provider_market.rs).  The market api (ya_client) and the negotiator are *)
(* outside the engine: each of their calls succeeds or fails, and the      *)
(* negotiator answers as it likes.  An operator of this section gives the  *)
(* set of the possible outcomes of the function it is named after, each    *)
(* with the calls the function has made.                                   *)
(***************************************************************************)
\* query_events asks collect for at most 2 events (provider_market.rs:78).
CollectMaxEvents == 2

\* The id of a proposal the negotiator has built for its counter offer.
CounterProposalId == 3

\* ya_client's error, as the call on the subscription has returned it.
TransportError(call, subscription_id) ==
    [tag |-> "TransportError", call |-> call, subscription |-> subscription_id]
NegotiatorError == [tag |-> "NegotiatorError"]

\* ProviderEvent (ya_model::market): both variants carry the demand proposal.
DemandEvent(demand) ==
    [kind |-> "DemandEvent", demand |-> demand, agreement_id |-> 0]
NewAgreementEvent(agreement_id, demand) ==
    [kind |-> "NewAgreementEvent", demand |-> demand, agreement_id |-> agreement_id]
ProviderEvents == {DemandEvent(1), NewAgreementEvent(1, 2)}

\* What collect may return: at most CollectMaxEvents events, each once.
Batches ==
    {b \in UNION {[1..n -> ProviderEvents] : n \in 0..CollectMaxEvents} :
        \A i, j \in DOMAIN b : b[i] = b[j] => i = j}

\* One call, as the engine made it.
Api(call, subscription_id, id, parent, ok) ==
    [call |-> call, subscription |-> subscription_id, id |-> id, parent |-> parent,
     ok |-> ok, answer |-> "", events |-> <<>>]
Collected(subscription_id, ok, batch) ==
    [call |-> "collect", subscription |-> subscription_id, id |-> 0, parent |-> 0,
     ok |-> ok, answer |-> "", events |-> batch]
Asked(call, subscription_id, id, answer) ==
    [call |-> call, subscription |-> subscription_id, id |-> id, parent |-> 0,
     ok |-> answer # "Err", answer |-> answer, events |-> <<>>]
ErrorLogged(subscription_id) ==
    [call |-> "error!", subscription |-> subscription_id, id |-> 0, parent |-> 0,
     ok |-> TRUE, answer |-> "", events |-> <<>>]

\* A call of the market api followed by `?`.
ApiCall(call, subscription_id, id, parent) ==
    {[res |-> IF ok THEN Ok ELSE TransportError(call, subscription_id),
      calls |-> <<Api(call, subscription_id, id, parent, ok)>>] : ok \in BOOLEAN}

\* The calls made so far, then one of the outcomes of what follows.
Then(made, outcomes) ==
    {[res |-> o.res, calls |-> made \o o.calls] : o \in outcomes}

\* accept_proposal (156-163): the offer is sent back under the proposal's id.
accept_proposal(subscription_id, proposal) ==
    ApiCall("create_proposal", subscription_id, 0, proposal)

\* counter_proposal (165-170): proposal is the negotiator's new proposal.
counter_proposal(subscription_id, proposal) ==
    ApiCall("create_proposal", subscription_id, proposal, proposal)

\* reject_proposal (172-177).
reject_proposal(subscription_id, proposal) ==
    ApiCall("reject_proposal", subscription_id, proposal, 0)

\* approve_agreement (179-184) and reject_agreement (186-191).
approve_agreement(subscription_id, agreement_id) ==
    ApiCall("approve_agreement", subscription_id, agreement_id, 0)
reject_agreement(subscription_id, agreement_id) ==
    ApiCall("reject_agreement", subscription_id, agreement_id, 0)

\* The proposals the negotiator may counter the proposal with: it may give
\* its proposal the id of the inbound one, or another.
CounterProposals(proposal) == {proposal, CounterProposalId}

\* process_proposal (123-137).
process_proposal(subscription_id, proposal) ==
    {[res |-> Ok,
      calls |-> <<Asked("react_to_proposal", subscription_id, proposal, "Err"),
                  ErrorLogged(subscription_id)>>],
     [res |-> Ok,
      calls |-> <<Asked("react_to_proposal", subscription_id, proposal, "IgnoreProposal")>>]}
    \cup Then(<<Asked("react_to_proposal", subscription_id, proposal, "AcceptProposal")>>,
              accept_proposal(subscription_id, proposal))
    \cup UNION {Then(<<Asked("react_to_proposal", subscription_id, proposal, "CounterProposal")>>,
                     counter_proposal(subscription_id, c)) : c \in CounterProposals(proposal)}
    \cup Then(<<Asked("react_to_proposal", subscription_id, proposal, "RejectProposal")>>,
              reject_proposal(subscription_id, proposal))

\* process_agreement (139-150).
process_agreement(subscription_id, agreement, agreement_id) ==
    {[res |-> Ok,
      calls |-> <<Asked("react_to_agreement", subscription_id, agreement, "Err"),
                  ErrorLogged(subscription_id)>>]}
    \cup Then(<<Asked("react_to_agreement", subscription_id, agreement, "ApproveAgreement")>>,
              approve_agreement(subscription_id, agreement_id))
    \cup Then(<<Asked("react_to_agreement", subscription_id, agreement, "RejectAgreement")>>,
              reject_agreement(subscription_id, agreement_id))

\* dispatch_event (92-121).
dispatch_event(subscription_id, event) ==
    {[res |-> TransportError("get_proposal", subscription_id),
      calls |-> <<Api("get_proposal", subscription_id, event.demand, 0, FALSE)>>]}
    \cup Then(<<Api("get_proposal", subscription_id, event.demand, 0, TRUE)>>,
              IF event.kind = "DemandEvent"
              THEN process_proposal(subscription_id, event.demand)
              ELSE process_agreement(subscription_id, event.demand, event.agreement_id))

\* dispatch_events (82-90): the calls it has made, for every way the events
\* may go.
RECURSIVE dispatch_events_aborts(_, _)
dispatch_events_aborts(subscription_id, batch) ==
    IF batch = <<>> THEN {<<>>}
    ELSE UNION {IF o.res = Ok
                THEN {o.calls \o rest : rest \in dispatch_events_aborts(subscription_id, Tail(batch))}
                ELSE {Append(o.calls, ErrorLogged(subscription_id))}
                : o \in dispatch_event(subscription_id, Head(batch))}

RECURSIVE dispatch_events(_, _)
dispatch_events(subscription_id, batch) ==
    IF batch = <<>> THEN {<<>>}
    ELSE {(IF o.res = Ok THEN o.calls ELSE Append(o.calls, ErrorLogged(subscription_id))) \o rest :
            o \in dispatch_event(subscription_id, Head(batch)),
            rest \in dispatch_events(subscription_id, Tail(batch))}

\* The loop of onshutdown (52-54) over the subscriptions subs.
RECURSIVE unsubscribe_each(_)
unsubscribe_each(subs) ==
    IF subs = <<>> THEN {[res |-> Ok, calls |-> <<>>]}
    ELSE {[res |-> TransportError("unsubscribe", Head(subs)),
           calls |-> <<Api("unsubscribe", Head(subs), 0, 0, FALSE)>>]}
         \cup Then(<<Api("unsubscribe", Head(subs), 0, 0, TRUE)>>, unsubscribe_each(Tail(subs)))

EngineReturned(op, res) == [op |-> op, res |-> res]

\* create_offers (37-47).
create_offers ==
    /\ pc = "idle"
    /\ \/ /\ calls' = <<Asked("create_offer", 0, 0, "Err")>>
          /\ mret' = EngineReturned("create_offers", NegotiatorError)
          /\ UNCHANGED offers
       \/ /\ calls' = <<Asked("create_offer", 0, 0, "Offer"), Api("subscribe", 0, 0, 0, FALSE)>>
          /\ mret' = EngineReturned("create_offers", TransportError("subscribe", 0))
          /\ UNCHANGED offers
       \/ \E s \in SubscriptionIds \ RangeOf(offers) :
             /\ calls' = <<Asked("create_offer", 0, 0, "Offer"), Api("subscribe", s, 0, 0, TRUE)>>
             /\ mret' = EngineReturned("create_offers", Ok)
             /\ offers' = Append(offers, s)
    /\ UNCHANGED <<pc, at, storeVars, ctVars, queueVars>>

\* onshutdown (49-56).
onshutdown ==
    /\ pc = "idle"
    /\ \E o \in unsubscribe_each(offers) :
          /\ calls' = o.calls
          /\ mret' = EngineReturned("onshutdown", o.res)
    /\ UNCHANGED <<offers, pc, at, storeVars, ctVars, queueVars>>

\* run_step (62-70) is entered, ...
run_step ==
    /\ pc = "idle"
    /\ pc' = "run_step"
    /\ at' = 1
    /\ calls' = <<>>
    /\ mret' = EngineReturned("run_step", NotCalled)
    /\ UNCHANGED <<offers, storeVars, ctVars, queueVars>>

\* ... runs its loop once for the next subscription (65-66), ...
run_step_offer ==
    /\ pc = "run_step"
    /\ at <= Len(offers)
    /\ LET subscription_id == offers[at] IN
       \/ /\ calls' = Append(calls, Collected(subscription_id, FALSE, <<>>))
          /\ mret' = EngineReturned("run_step", TransportError("collect", subscription_id))
          /\ pc' = "idle"
          /\ at' = 0
       \/ \E batch \in Batches :
             \E made \in dispatch_events(subscription_id, batch) :
                /\ calls' = Append(calls, Collected(subscription_id, TRUE, batch)) \o made
                /\ at' = at + 1
                /\ UNCHANGED <<pc, mret>>
    /\ UNCHANGED <<offers, storeVars, ctVars, queueVars>>

\* ... and returns Ok after the last one (69).
run_step_return ==
    /\ pc = "run_step"
    /\ at > Len(offers)
    /\ mret' = EngineReturned("run_step", Ok)
    /\ pc' = "idle"
    /\ at' = 0
    /\ UNCHANGED <<offers, calls, storeVars, ctVars, queueVars>>

NextMarket ==
    \/ create_offers
    \/ onshutdown
    \/ run_step
    \/ run_step_offer
    \/ run_step_return

SpecMarket == Init /\ [][NextMarket]_vars

(***************************************************************************)
(* check_transition on its own: the state of one agreement walked through  *)
(* the oracle.  A caller asks for the move ctFrom -> ctTo, the oracle      *)
(* answers (ctRes), and the move is made only when the answer is Ok, as    *)
(* update_state does (agreement.rs:285-292).                               *)
(***************************************************************************)
InitOracle ==
    /\ InitStore
    /\ InitQueue
    /\ InitMarket
    /\ ctFrom \in AgreementState
    /\ ctTo \in AgreementState
    /\ ctRes = NotCalled
    /\ ctHops = 0
    /\ ctLeft = {}

CheckTransitionCall ==
    /\ ctRes = NotCalled
    /\ ctRes' = check_transition(ctFrom, ctTo)
    /\ UNCHANGED <<ctFrom, ctTo, ctHops, ctLeft, storeVars, queueVars, marketVars>>

CheckTransitionApply ==
    /\ ctRes # NotCalled
    /\ ctRes.tag = "Ok" => ctHops < MaxHops
    /\ ctFrom' = IF ctRes.tag = "Ok" THEN ctTo ELSE ctFrom
    /\ ctHops' = IF ctRes.tag = "Ok" THEN ctHops + 1 ELSE ctHops
    /\ ctLeft' = IF ctRes.tag = "Ok" THEN ctLeft \cup {ctFrom} ELSE ctLeft
    /\ ctTo' \in AgreementState
    /\ ctRes' = NotCalled
    /\ UNCHANGED <<storeVars, queueVars, marketVars>>

NextOracle == CheckTransitionCall \/ CheckTransitionApply

SpecOracle == InitOracle /\ [][NextOracle]_vars


(***************************************************************************)
(* Properties.                                                             *)
(***************************************************************************)
Row(id) == CHOOSE x \in agreements : x.id = id
Stored(id) == \E x \in agreements : x.id = id
Referencing(agrs, p) == {x \in agrs : x.offer_proposal_id = p}

\* The table of spec 4.4: the legal moves of an agreement.
AllowedTransitions ==
    {<<"Proposal", "Pending">>, <<"Proposal", "Cancelled">>, <<"Proposal", "Expired">>,
     <<"Pending", "Cancelled">>, <<"Pending", "Rejected">>, <<"Pending", "Approved">>,
     <<"Pending", "Expired">>, <<"Approved", "Terminated">>}

\* C1: check_transition(from, to) answers Ok exactly for the pairs of the
\* table, and InvalidTransition{from, to} with those two states for every
\* other pair, every (s, s) and every pair leaving a terminal state included.
C1_CheckTransitionIsTheTable ==
    ctRes # NotCalled =>
        IF <<ctFrom, ctTo>> \in AllowedTransitions
        THEN ctRes = Ok
        ELSE ctRes = InvalidTransition(ctFrom, ctTo)

\* A self transition of a live state was asked for and refused, after a move.
C1_Witness ==
    /\ ctHops = 1
    /\ ctFrom = "Pending"
    /\ ctTo = "Pending"
    /\ ctRes = InvalidTransition("Pending", "Pending")

\* C2: in every reachable state at most one stored agreement has any given
\* offer_proposal_id.
C2_OneAgreementPerProposal ==
    \A x \in agreements, y \in agreements :
        x.offer_proposal_id = y.offer_proposal_id => x = y

\* A save under another id on a proposal that has an agreement was refused,
\* while a second agreement (on another proposal) is stored as well.
C2_Witness ==
    /\ ret.op = "save"
    /\ ret.res.tag = "Exists"
    /\ ret.res.id # ret.id
    /\ Cardinality(agreements) = 2

\* What holds right after a save, and what a save step does.
C3_AfterSave ==
    (ret.op = "save" /\ ret.res.tag \in {"Ok", "Exists"}) =>
        /\ Cardinality(Referencing(agreements, ret.proposal)) = 1
        /\ \A x \in Referencing(agreements, ret.proposal) :
               IF ret.res.tag = "Ok" THEN x.id = ret.id
               ELSE ret.res = Exists(x.id, ret.proposal)

C3_SaveStep ==
    ret'.op = "save" =>
        /\ ret'.res.tag = "Ok" => Referencing(agreements, ret'.proposal) = {}
        /\ (/\ ~has_counter_proposal(proposals, ret'.proposal)
            /\ Referencing(agreements, ret'.proposal) # {})
           => /\ \E e \in Referencing(agreements, ret'.proposal) :
                     ret'.res = Exists(e.id, ret'.proposal)
              /\ agreements' = agreements

\* C3: of two saves on the same, not countered, proposal exactly one returns
\* Ok and the other Exists(existing_id, proposal_id) with the id of the stored
\* agreement: a save returns Ok only when no row referenced the proposal, a
\* save on a proposal that a row references returns Exists with that row's id
\* and stores nothing, and after either exactly one row references it.
C3_SecondSaveExists == [](C3_AfterSave) /\ [][C3_SaveStep]_vars

\* The same agreement was saved again and refused with its own id.
C3_Witness ==
    /\ ret.op = "save"
    /\ ret.res = Exists(ret.id, ret.proposal)
    /\ Stored(ret.id)

\* A save step on a proposal that has a counter.
C4_SaveStep ==
    (ret'.op = "save" /\ has_counter_proposal(proposals, ret'.proposal)) =>
        /\ ret'.res = ProposalCountered(ret'.proposal)
        /\ agreements' = agreements
        /\ proposals' = proposals

\* C4: save on a proposal that has a counter-proposal fails with
\* ProposalCountered(proposal_id), inserts no row and does not mark the
\* proposal accepted, also when an agreement on the proposal exists already.
C4_CounteredProposalRefused == [][C4_SaveStep]_vars

\* save was refused as ProposalCountered on a proposal an agreement references.
C4_Witness ==
    /\ ret.op = "save"
    /\ ret.res = ProposalCountered(ret.proposal)
    /\ Referencing(agreements, ret.proposal) # {}

\* The flag goes with the row, in every state and in every step.
C5_AcceptedWithRow ==
    \A x \in agreements :
        /\ x.offer_proposal_id \in DOMAIN proposals
        /\ proposals[x.offer_proposal_id].accepted

C5_Step ==
    /\ (ret'.op = "save" /\ ret'.res.tag # "Ok") =>
           (agreements' = agreements /\ proposals' = proposals)
    /\ \A p \in DOMAIN proposals :
           (proposals'[p].accepted /\ ~proposals[p].accepted) =>
               /\ ret'.op = "save" /\ ret'.res.tag = "Ok" /\ ret'.proposal = p
               /\ \E x \in agreements' \ agreements :
                      x.id = ret'.id /\ x.offer_proposal_id = p

\* C5: inserting the agreement and marking its proposal accepted are one
\* step: the proposal of every stored agreement is accepted, a proposal
\* becomes accepted only in the save that inserts an agreement on it, and a
\* save that fails writes neither the row nor the flag.
C5_InsertAndAcceptAtomic == [](C5_AcceptedWithRow) /\ [][C5_Step]_vars

\* A save has just inserted a row and its proposal is accepted.
C5_Witness ==
    /\ ret.op = "save"
    /\ ret.res.tag = "Ok"
    /\ Stored(ret.id)
    /\ proposals[ret.proposal].accepted

C9_TerminatedWasApprovedInv ==
    \A x \in agreements : x.state = "Terminated" => x.id \in approvedBefore

C9_Step ==
    /\ (ret'.op = "terminate" /\ ret'.res.tag = "Ok") =>
           (Stored(ret'.id) /\ Row(ret'.id).state = "Approved")
    /\ \A x \in agreements' :
           (x.state = "Terminated" /\ [x EXCEPT !.state = "Approved"] \notin agreements)
               => x \in agreements

\* C9: a Terminated agreement was Approved before, and terminate succeeds
\* only on an Approved agreement, never on one in Proposal or Pending.
C9_TerminatedWasApproved == [](C9_TerminatedWasApprovedInv) /\ [][C9_Step]_vars

\* An agreement has been terminated.
C9_Witness ==
    /\ ret.op = "terminate"
    /\ ret.res.tag = "Ok"
    /\ Stored(ret.id)
    /\ Row(ret.id).state = "Terminated"
    /\ ret.id \in approvedBefore

\* The positions in the log of the events of one kind of one agreement.
EventsOf(id, kind) ==
    {i \in DOMAIN events : events[i].agreement_id = id /\ events[i].kind = kind}

\* C10: for every Terminated agreement the event log holds exactly one
\* Terminated event and exactly one Approved event of it, the Approved one
\* first.

C10_TerminatedHasItsTwoEvents ==
    \A x \in agreements :
        x.state = "Terminated" =>
            /\ Cardinality(EventsOf(x.id, "Terminated")) = 1
            /\ Cardinality(EventsOf(x.id, "Approved")) = 1
            /\ \A i \in EventsOf(x.id, "Approved"), j \in EventsOf(x.id, "Terminated") : i < j

\* The events of one agreement, in log order.
LogOf(evts, id) == SelectSeq(evts, LAMBDA e : e.agreement_id = id)

\* What a sweep at day now with retention get_value(env) removes.
Outdated(x, now, env) == x.valid_to < now - get_value(env)

C11_CleanStep ==
    ret'.op = "clean" => \A now \in LifeNows, env \in StoreDaysEnv :
        clean(now, env) =>
            /\ \A x \in agreements' : ~Outdated(x, now, env)
            /\ \A x \in agreements :
                   ~Outdated(x, now, env) =>
                       /\ x \in agreements'
                       /\ LogOf(events', x.id) = LogOf(events, x.id)

\* C11: clean deletes exactly the agreements whose valid_to is earlier than
\* now minus the retention interval: after it none of them is stored, and
\* every other agreement is stored as it was, with its events unchanged.
C11_CleanDeletesExactlyOutdated == [][C11_CleanStep]_vars

\* A sweep has removed the old agreement and kept the recent one, which was
\* Approved and has its event.
C11_Witness ==
    /\ ret.op = "clean"
    /\ \E e \in DOMAIN events : events[e].agreement_id = [n |-> 1, owner |-> "Provider"]
    /\ ~Stored([n |-> 1, owner |-> "Provider"])
    /\ Stored([n |-> 1, owner |-> "Requestor"])
    /\ Row([n |-> 1, owner |-> "Requestor"]).state = "Approved"
    /\ LogOf(events, [n |-> 1, owner |-> "Requestor"]) # <<>>


C12_CleanStep ==
    ret'.op = "clean" => \A now \in LifeNows, env \in StoreDaysEnv :
        clean(now, env) =>
            \A x \in agreements \ agreements' : LogOf(events', x.id) = <<>>

\* C12: after clean the event log holds no event of an agreement that this
\* clean deleted: the events of a removed agreement go with it.
C12_CleanRemovesEventsOfDeleted == [][C12_CleanStep]_vars


\* A read at validation time ts has returned the rows of ret'.val (one or
\* none): what it gave and stored for a row that was r before the read.
C13_Read(ts) ==
    /\ ret'.res = Ok
    /\ \A v \in ret'.val :
           LET r == Row(v.id) IN
           /\ (r.valid_to < ts /\ r.state \in {"Proposal", "Pending"}) =>
                  /\ v = [r EXCEPT !.state = "Expired"]
                  /\ agreements' = (agreements \ {r}) \cup {v}
           /\ r.valid_to >= ts => (v = r /\ agreements' = agreements)
           /\ r.state = "Expired" => (v = r /\ agreements' = agreements)

C13_Step ==
    /\ ret'.op = "select" =>
           \A node \in {NoNode, 1}, ts \in LifeTs :
               select(ret'.id, node, ts) => C13_Read(ts)
    /\ ret'.op = "select_by_node" =>
           \A node \in {1}, ts \in LifeTs :
               select_by_node(ret'.id, node, ts) => C13_Read(ts)

\* C13: a select or select_by_node at time now that finds an agreement in
\* state Proposal or Pending with valid_to < now returns it as Expired and
\* stores it as Expired, so that every later read returns Expired; with
\* valid_to >= now it returns the row as it is and stores nothing.
C13_ExpiredOnRead == [][C13_Step]_vars

\* select_by_node has returned, as Expired, the old agreement that had been
\* confirmed with a session; the row is stored Expired and the recent
\* agreement beside it is still Pending.
C13_Witness ==
    /\ ret.op = "select_by_node"
    /\ \E v \in ret.val :
           /\ v.state = "Expired"
           /\ v.valid_to = OldValidTo
           /\ v.session_id # NoSession
           /\ v \in agreements
    /\ \E x \in agreements : x.valid_to = RecentValidTo /\ x.state = "Pending"


\* The states that admit no transition to Expired.
NotExpiring == {"Approved", "Cancelled", "Rejected", "Expired", "Terminated"}

\* A read at time ts of a row that was outdated and in one of those states.
C14_Read(ts) ==
    \A x \in agreements :
        (x.valid_to < ts /\ x.state \in NotExpiring) =>
            /\ ret'.res = Ok
            /\ agreements' = agreements
            /\ \A v \in ret'.val : v.id = x.id => v = x

C14_Step ==
    /\ ret'.op = "select" =>
           \A node \in NodeIds \cup {NoNode}, ts \in ReadTs :
               select(ret'.id, node, ts) => C14_Read(ts)
    /\ ret'.op = "select_by_node" =>
           \A node \in NodeIds, ts \in ReadTs :
               select_by_node(ret'.id, node, ts) => C14_Read(ts)

\* C14: a select or select_by_node at time now of an agreement with
\* valid_to < now in state Approved, Cancelled, Rejected, Expired or
\* Terminated returns Ok with the agreement in that state, raises no
\* InvalidTransition, and leaves the stored row as it was.
C14_TerminalNotExpired == [][C14_Step]_vars

\* A read after valid_to has returned a Cancelled agreement as it is stored.
C14_Witness ==
    /\ ret.op \in {"select", "select_by_node"}
    /\ ret.res = Ok
    /\ \E v \in ret.val : v.state = "Cancelled" /\ v.valid_to = OldValidTo /\ v \in agreements


\* The session of the row with the given id, in a table that holds it.
SessionOf(agrs, id) == (CHOOSE x \in agrs : x.id = id).session_id

\* The ids stored before and after a step.
Staying == {x.id : x \in agreements} \cap {y.id : y \in agreements'}

C15_Step ==
    /\ \A id \in Staying :
           SessionOf(agreements', id) # SessionOf(agreements, id) =>
               /\ ret'.op \in {"confirm", "approve"}
               /\ ret'.res = Ok
               /\ ret'.id = id
               /\ SessionOf(agreements', id) \in Sessions
               /\ \/ confirm(id, SessionOf(agreements', id))
                  \/ approve(id, SessionOf(agreements', id))
    /\ ret'.op \in {"confirm", "approve"} =>
           /\ (confirm(ret'.id, NoSession) \/ approve(ret'.id, NoSession)) =>
                  \A id \in Staying : SessionOf(agreements', id) = SessionOf(agreements, id)
           /\ ret'.res = Ok =>
                  \A s \in Sessions :
                      (confirm(ret'.id, s) \/ approve(ret'.id, s)) =>
                          SessionOf(agreements', ret'.id) = s

\* C15: the session_id of a stored agreement is changed by no select,
\* select_by_node, terminate, save or clean and by no confirm or approve that
\* passes no session; it changes only in a confirm or approve that succeeds
\* with a session, and is that session afterwards.
C15_SessionKept == [][C15_Step]_vars

\* An agreement that got session 2 has been terminated and still has it,
\* beside one that was confirmed with session 1.
C15_Witness ==
    /\ ret.op = "terminate"
    /\ ret.res = Ok
    /\ Stored(ret.id)
    /\ Row(ret.id).session_id = 2
    /\ \E x \in agreements : x.session_id = 1 /\ x.state = "Pending"


\* A row of the event log.
LogEvent(id, kind, reason, terminator) ==
    [agreement_id |-> id, kind |-> kind, reason |-> reason, terminator |-> terminator]

C16_Step ==
    (ret'.op = "approve" /\ Stored(ret'.id)) =>
        LET r == Row(ret'.id) IN
        /\ ret'.res = Ok =>
               /\ r.state = "Pending"
               /\ \E y \in agreements' :
                      /\ y.state = "Approved"
                      /\ agreements' = (agreements \ {r}) \cup {y}
                      /\ [y EXCEPT !.session_id = r.session_id] = [r EXCEPT !.state = "Approved"]
               /\ events' = Append(events, LogEvent(r.id, "Approved", NoReason, "Provider"))
        /\ r.state # "Pending" =>
               /\ ret'.res = InvalidTransition(r.state, "Approved")
               /\ events' = events
               /\ agreements' = agreements

\* C16: approve succeeds only on a Pending agreement, which it moves to
\* Approved while appending exactly one event, of that agreement, tagged
\* Provider and without a reason; on an agreement in another state (a second
\* approve) it fails with InvalidTransition and appends nothing.
C16_ApproveOnce == [][C16_Step]_vars

\* A second approve of an Approved agreement was refused, and the log holds
\* the one Approved event of the first.
C16_Witness ==
    /\ ret.op = "approve"
    /\ ret.res = InvalidTransition("Approved", "Approved")
    /\ LogOf(events, ret.id) = <<LogEvent(ret.id, "Approved", NoReason, "Provider")>>

C17_Step ==
    (ret'.op = "terminate" /\ Stored(ret'.id)) =>
        LET r == Row(ret'.id) IN
        /\ ret'.res = Ok =>
               /\ r.state = "Approved"
               /\ agreements' = (agreements \ {r}) \cup {[r EXCEPT !.state = "Terminated"]}
               /\ \A reason \in {NoReason} \cup Reasons, terminator \in OwnerType :
                      terminate(r.id, reason, terminator) =>
                          events' = Append(events, LogEvent(r.id, "Terminated", reason, terminator))
        /\ r.state # "Approved" =>
               /\ ret'.res = InvalidTransition(r.state, "Terminated")
               /\ events' = events
               /\ agreements' = agreements

\* C17: terminate succeeds only on an Approved agreement, which it moves to
\* Terminated while appending exactly one event carrying the reason and the
\* terminator it was given; on an agreement in any other state (Pending,
\* Terminated) it fails with InvalidTransition and appends no event.
C17_TerminateOnce == [][C17_Step]_vars

\* A second terminate was refused; the log holds the Terminated event of the
\* first, with its reason and the requestor as terminator.
C17_Witness ==
    /\ ret.op = "terminate"
    /\ ret.res = InvalidTransition("Terminated", "Terminated")
    /\ LogOf(events, ret.id) = <<LogEvent(ret.id, "Approved", NoReason, "Provider"),
                                 LogEvent(ret.id, "Terminated", 1, "Requestor")>>


\* The rows queued for a subscription.
QueueOf(tbl, s) == {e \in tbl : e.subscription_id = s}

C18_Step ==
    qret'.op = "take_requestor_events" =>
        LET s == qret'.subscription IN
        /\ demands[s] = "NotFound" =>
               /\ qret'.res = SubscriptionNotFound(s)
               /\ qret'.val = <<>>
               /\ market_event' = market_event
               /\ delivered' = delivered
        /\ demands[s] = "Expired" =>
               /\ qret'.res = SubscriptionExpired(s)
               /\ qret'.val = <<>>
               /\ market_event' = market_event
               /\ delivered' = delivered

\* C18: take on a subscription whose status is NotFound fails with
\* SubscriptionNotFound, on one whose status is Expired with
\* SubscriptionExpired; it returns no event and deletes none, whatever is
\* queued for the subscription.
C18_TakeChecksSubscription == [][C18_Step]_vars

\* take was refused on an expired subscription that has two events queued.
C18_Witness ==
    /\ qret.op = "take_requestor_events"
    /\ qret.res = SubscriptionExpired(qret.subscription)
    /\ Cardinality(QueueOf(market_event, qret.subscription)) = 2

C19_Taken(s, max_events) ==
    LET queue == QueueOf(market_event, s)
        sq == qret'.val
        k == MinOf(Cardinality(queue), max_events)
    IN  /\ qret'.res = Ok
        /\ DOMAIN sq = 1..k
        /\ RangeOf(sq) \subseteq queue
        /\ Cardinality(RangeOf(sq)) = k
        /\ \A i, j \in 1..k : i < j => sq[i].timestamp <= sq[j].timestamp
        /\ \A e \in queue \ RangeOf(sq) : \A i \in 1..k : sq[i].timestamp <= e.timestamp
        /\ market_event' = market_event \ RangeOf(sq)

C19_Step ==
    (qret'.op = "take_requestor_events" /\ demands[qret'.subscription] = "Active") =>
        \A max_events \in TakeMax :
            take_requestor_events(qret'.subscription, max_events) =>
                C19_Taken(qret'.subscription, max_events)

\* C19: take(sub, max), max >= 0, on an active subscription with n events
\* queued returns min(n, max) of them, in ascending timestamp order and none
\* later than an event it leaves, and removes exactly those from the queue;
\* so the next take returns only what remained, and nothing once the queue
\* is empty.
C19_TakeOldestFirst == [][C19_Step]_vars

\* A take has returned two of three events, timestamps 1 then 2, the first
\* of them enqueued after the second, and has left the third.
C19_Witness ==
    /\ qret.op = "take_requestor_events"
    /\ qret.res = Ok
    /\ DOMAIN qret.val = 1..2
    /\ qret.val[1].timestamp = 1
    /\ qret.val[2].timestamp = 2
    /\ qret.val[1].id > qret.val[2].id
    /\ Cardinality(QueueOf(market_event, qret.subscription)) = 1

\* C20: whatever the order of the enqueue and take calls, every event is
\* returned by at most one take, and an event that was returned is not in
\* the queue.
C20_DeliveredAtMostOnce ==
    \A e \in EventIds :
        /\ delivered[e] <= 1
        /\ delivered[e] = 1 => \A x \in market_event : x.id # e

\* Three events of one subscription have all been returned, each once, the
\* last by a take that returned it alone.
C20_Witness ==
    /\ qret.op = "take_requestor_events"
    /\ DOMAIN qret.val = 1..1
    /\ \A e \in EventIds : delivered[e] = 1
    /\ market_event = {}


\* A take has returned events none of which is earlier than one returned by
\* an earlier take of the same subscription, and in ascending order.
C21_NotBeforeTaken ==
    LET s == qret'.subscription
        sq == qret'.val
    IN  /\ \A i \in DOMAIN sq : sq[i].timestamp >= taken_ts[s]
        /\ \A i, j \in DOMAIN sq : i < j => sq[i].timestamp <= sq[j].timestamp

C21_Step ==
    qret'.op = "take_requestor_events" => C21_NotBeforeTaken

C21_StepInOrder ==
    (qret'.op = "take_requestor_events" /\ in_order[qret'.subscription]) =>
        C21_NotBeforeTaken

OthersKept(s) ==
    \A t \in SubscriptionIds \ {s} : QueueOf(market_event', t) = QueueOf(market_event, t)

C30_Step ==
    /\ qret'.op = "take_requestor_events" =>
           /\ \A i \in DOMAIN qret'.val :
                  /\ qret'.val[i].subscription_id = qret'.subscription
                  /\ qret'.val[i] \in market_event
           /\ OthersKept(qret'.subscription)
    /\ qret'.op = "remove_requestor_events" =>
           /\ QueueOf(market_event', qret'.subscription) = {}
           /\ OthersKept(qret'.subscription)

\* C30: take(s, max) and remove_all(s) touch subscription s only: a take
\* returns events of s alone, remove_all(s) leaves no event queued for s,
\* and both leave the queue of every other subscription as it was.
C30_OnlyOwnSubscription == [][C30_Step]_vars

\* remove_all has emptied the queue of one subscription, of three events
\* enqueued and none taken, while two are still queued for the other.
C30_Witness ==
    /\ qret.op = "remove_requestor_events"
    /\ next_event_id = MaxEnqueued + 1
    /\ QueueOf(market_event, qret.subscription) = {}
    /\ Cardinality(market_event) = 2
    /\ \A e \in EventIds : delivered[e] = 0


C26_Step ==
    (ret'.op = "confirm" /\ Stored(ret'.id)) =>
        LET r == Row(ret'.id) IN
        /\ events' = events
        /\ ret'.res = Ok =>
               /\ r.state = "Proposal"
               /\ \E y \in agreements' :
                      /\ y.state = "Pending"
                      /\ agreements' = (agreements \ {r}) \cup {y}
                      /\ [y EXCEPT !.session_id = r.session_id] = [r EXCEPT !.state = "Pending"]
        /\ r.state # "Proposal" =>
               /\ ret'.res = InvalidTransition(r.state, "Pending")
               /\ agreements' = agreements

\* C26: confirm succeeds only on an agreement in state Proposal, which it
\* moves to Pending, and appends no event; on an agreement in another state
\* (a second confirm: InvalidTransition{Pending, Pending}) it fails with
\* InvalidTransition and changes nothing.
C26_ConfirmOnce == [][C26_Step]_vars

\* A second confirm of a Pending agreement was refused; the log is empty.
C26_Witness ==
    /\ ret.op = "confirm"
    /\ ret.res = InvalidTransition("Pending", "Pending")
    /\ Row(ret.id).state = "Pending"
    /\ Row(ret.id).session_id = 2
    /\ events = <<>>


\* The states that are never left.
FinalStates == {"Cancelled", "Rejected", "Expired", "Terminated"}

\* C29: the state of an agreement, which only update_state writes, changes
\* only along the pairs check_transition allows, never comes back to a state
\* it has left, changes at most three times, and is never changed again once
\* it is Cancelled, Rejected, Expired or Terminated: after three changes, or
\* in one of those states, every change asked for is refused.
C29_StateWalk ==
    /\ ctFrom \notin ctLeft
    /\ Cardinality(ctLeft) = ctHops
    /\ ctHops <= 3
    /\ ctRes = Ok => <<ctFrom, ctTo>> \in AllowedTransitions
    /\ (ctRes # NotCalled /\ (ctFrom \in FinalStates \/ ctHops = 3)) =>
           ctRes = InvalidTransition(ctFrom, ctTo)

\* An agreement has gone from Proposal through Pending and Approved to
\* Terminated, and a change back to Approved was asked for and refused.
C29_Witness ==
    /\ ctHops = 3
    /\ ctFrom = "Terminated"
    /\ ctLeft = {"Proposal", "Pending", "Approved"}
    /\ ctRes = InvalidTransition("Terminated", "Approved")


\* Whether node is the provider or the requestor of the row x.
PartyOf(x, node) == node = x.provider_id \/ node = x.requestor_id

\* select_by_node(id, node, _) has returned ret'.val.
C27_ByNode(id, node) ==
    /\ \A x \in agreements :
           (x.id \in {id, swap_owner(id)} /\ PartyOf(x, node)) =>
               \E v \in ret'.val : v.id = x.id
    /\ (\A x \in agreements : x.id \in {id, swap_owner(id)} => ~PartyOf(x, node)) =>
           ret'.val = {}

\* select(id, Some(node), _) has returned ret'.val.
C27_ByOwner(id, node) ==
    ret'.val # {} =>
        \E x \in agreements :
            /\ x.id = id
            /\ id.owner = "Provider" => x.provider_id = node
            /\ id.owner = "Requestor" => x.requestor_id = node

C27_Step ==
    /\ ret'.op = "select_by_node" =>
           \A node \in ReadingNodes, ts \in {OldValidTo} :
               select_by_node(ret'.id, node, ts) => C27_ByNode(ret'.id, node)
    /\ ret'.op = "select" =>
           \A node \in ReadingNodes, ts \in {OldValidTo} :
               select(ret'.id, node, ts) => C27_ByOwner(ret'.id, node)

\* C27: select_by_node(id, node, now) returns the stored agreement it is
\* asked for whether it is given the agreement's id or the swap_owner form
\* of it, when node is the agreement's provider or requestor; it returns
\* None when node is neither; select(id, Some(node), now) returns None unless
\* node is the provider of a Provider-owned id or the requestor of a
\* Requestor-owned id.
C27_ReadByNode == [][C27_Step]_vars


C28_Step ==
    (/\ ret'.op \in {"confirm", "approve", "terminate"}
     /\ ret'.res # Ok) =>
        /\ agreements' = agreements
        /\ events' = events

\* C28: a confirm, approve or terminate call that fails, with
\* InvalidTransition or because the write of the session or of the event is
\* refused after the state was updated, leaves every agreement's stored state
\* and session_id and the event log as they were before the call.
C28_FailedCallWritesNothing == [][C28_Step]_vars

\* A call was cut short after its state update: an approve whose event was
\* refused has returned, and the agreement is still Pending.
C28_Witness ==
    /\ ret.op = "approve"
    /\ ret.res = EventError
    /\ \E x \in agreements : x.id = ret.id /\ x.state = "Pending"


\* run_step has returned.
StepReturned == pc = "idle" /\ mret.op = "run_step"

\* The calls of the market api.
TransportCalls ==
    {"collect", "get_proposal", "create_proposal", "reject_proposal",
     "approve_agreement", "reject_agreement"}

\* The indices of the calls that failed while an event was processed.
EventFailures ==
    {k \in DOMAIN calls : ~calls[k].ok /\ calls[k].call # "collect"}

\* Every event of the batch a collect has returned was dispatched: its
\* proposal was asked for on that subscription, after the collect.
C22_BatchDispatched(k) ==
    \A j \in DOMAIN calls[k].events :
        \E m \in DOMAIN calls :
            /\ m > k
            /\ calls[m].call = "get_proposal"
            /\ calls[m].subscription = calls[k].subscription
            /\ calls[m].id = calls[k].events[j].demand

\* C22: in run_step a failure while one event is processed (a negotiator
\* error, or an error dispatch_event returns) is logged and swallowed: every
\* event of every collected batch is dispatched, every failure is logged, and
\* a run_step in which no collect failed has collected every subscription and
\* returns Ok.
C22_EventErrorsIsolated ==
    (mret.op = "run_step") =>
        /\ \A k \in DOMAIN calls : calls[k].call = "collect" => C22_BatchDispatched(k)
        /\ Cardinality({k \in DOMAIN calls : calls[k].call = "error!"}) =
               Cardinality(EventFailures)
        /\ (StepReturned /\ \A k \in DOMAIN calls : calls[k].ok \/ calls[k].call # "collect") =>
               /\ mret.res = Ok
               /\ \A i \in DOMAIN offers :
                      \E k \in DOMAIN calls :
                          calls[k].call = "collect" /\ calls[k].subscription = offers[i]

\* run_step has returned Ok although the first event of the first
\* subscription's batch of two failed, and the second subscription was
\* collected after it.
C22_Witness ==
    /\ StepReturned
    /\ mret.res = Ok
    /\ Len(offers) = 2
    /\ Len(calls) > 3
    /\ Len(calls[1].events) = 2
    /\ ~calls[2].ok
    /\ calls[3].call = "error!"
    /\ \E k \in DOMAIN calls :
           calls[k].call = "collect" /\ calls[k].subscription = offers[2]

\* C23: every transport error raised during run_step (by collect,
\* get_proposal, create_proposal, reject_proposal, approve_agreement or
\* reject_agreement) makes run_step return that error and aborts the step:
\* the failed call is the last call of the step.
C23_TransportErrorsAbortStep ==
    StepReturned =>
        \A k \in DOMAIN calls :
            (calls[k].call \in TransportCalls /\ ~calls[k].ok) =>
                /\ mret.res = TransportError(calls[k].call, calls[k].subscription)
                /\ k = Len(calls)

\* C24: onshutdown calls unsubscribe for every subscription create_offers
\* has recorded, whether or not unsubscribe fails for some of them.
C24_ShutdownUnsubscribesAll ==
    (mret.op = "onshutdown") =>
        \A i \in DOMAIN offers :
            \E k \in DOMAIN calls :
                calls[k].call = "unsubscribe" /\ calls[k].subscription = offers[i]

\* C25: when the negotiator answers the inbound proposal d1 with
\* CounterProposal(b2), the engine marks d1 as countered and then calls
\* create_proposal with b2 and with d1 as the parent proposal id.
C25_CounterMarksParentFirst ==
    \A k \in DOMAIN calls :
        (calls[k].call = "react_to_proposal" /\ calls[k].answer = "CounterProposal") =>
            /\ k + 2 <= Len(calls)
            /\ calls[k + 1].call = "mark_countered"
            /\ calls[k + 1].id = calls[k].id
            /\ calls[k + 2].call = "create_proposal"
            /\ calls[k + 2].parent = calls[k].id

====
